---- MODULE Spec2Model ----
(***************************************************************************)
(* A model of the nimue connection pool (src/nimue/nimue.py).              *)
(*                                                                         *)
(* Threads are the callers of getconnection / NimueConnection.close, the   *)
(* cleanup thread (_NimueCleanupThread), one thread that calls             *)
(* NimueConnectionPool.close and the threads that call property setters.   *)
(* The constructor is modelled from the object of line 66 on; Init is the  *)
(* pool it returns.                                                        *)
(* Code that runs while the pool's Condition lock is held and does not     *)
(* wait is one step; every read or write made outside the lock is a step   *)
(* of its own, so the races of the unlocked code are in the model.         *)
(***************************************************************************)
EXTENDS Integers, Sequences, FiniteSets, TLC

\* ----------------------------------------------------------------- bounds
MaxMembers == 3   \* pool member objects alive at one time
MaxTime    == 1   \* readings of time.monotonic() are 0..MaxTime
MaxPoolMax == 2   \* largest value given to poolmax
MaxFaults  == 1   \* driver faults (a session dying, a connect failing)
MaxCycles  == 1   \* cleanup cycles started by the cleanup thread
MaxSets    == 2   \* calls of property setters
MaxStamp   == 2   \* latest time of a cycle that starts from InitCycle

Callers  == {"t1", "t2"}
NoThread == "none"
Unset    == -1        \* stands for a number that does not exist yet (or any more)
Members  == 1..MaxMembers
Lent     == "h0"      \* a NimueConnection handed out before the run starts
Handles  == Callers \cup {Lent}   \* a caller keeps at most one NimueConnection
                                  \* of its own at a time
Setters  == {"s1", "s2"}

VARIABLES
  pool,           \* _pool: the members the pool owns
  free,           \* _free: sequence, head first
  use,            \* _use
  sess,           \* state of each member's raw session
  create_time,    \* _NimueConnectionPoolMember._create_time
  touch_time,     \* _NimueConnectionPoolMember._touch_time
  now,            \* time.monotonic()
  poolmin, poolmax, idle_timeout,
  hc_on_get,      \* _healthcheck_on_getconnection
  healthcheck_callback,   \* _healthcheck_callback: "std", or "false" for a
                  \* probe that fails on every session
  cleanup_interval,
  kpc,            \* where the constructor is
  initial,        \* the local variable initial of __init__ (lines 108-112)
  cleaned_dead, cleaned_idle, cleanup_cycles,
  exitevent,      \* _exitevent.is_set()
  lockOwner,      \* the thread that holds _lock
  waiters,        \* threads inside _lock.wait_for, oldest first
  pc,             \* where each caller is
  mode,           \* blocking / timeout arguments of the caller's getconnection
  hnd,            \* the handle a caller's close() is working on
  hstate,         \* per handle: "none", "open" (_closed False), "closed"
  hmember,        \* per handle: _member, 0 once the attribute is deleted
  ret,            \* how the last call to return ended
  jpc,            \* cleanup thread
  cpc,            \* the thread calling NimueConnectionPool.close
  spc, sfield, sval,   \* the threads calling a property setter
  faults, nsets

vars == <<pool, free, use, sess, create_time, touch_time, now, poolmin, poolmax,
          idle_timeout, hc_on_get, healthcheck_callback, cleanup_interval,
          kpc, initial, cleaned_dead, cleaned_idle, cleanup_cycles,
          exitevent, lockOwner, waiters, pc, mode, hnd, hstate, hmember, ret,
          jpc, cpc, spc, sfield, sval, faults, nsets>>

poolVars == <<pool, free, use, sess, create_time, touch_time>>
cfgVars  == <<poolmin, poolmax, idle_timeout, hc_on_get, healthcheck_callback,
              cleanup_interval>>
ctorVars == <<kpc, initial>>
statVars == <<cleaned_dead, cleaned_idle, cleanup_cycles>>
hndVars  == <<hstate, hmember>>
setVars  == <<spc, sfield, sval, nsets>>

\* ---------------------------------------------------------------- helpers
SeqSet(s) == {s[i] : i \in 1..Len(s)}

Min2(a, b) == IF a < b THEN a ELSE b

\* The members of sequence f at the positions not in S, in their order.
KeepSeq(f, S) ==
  LET keep == {i \in 1..Len(f) : i \notin S}
      nth(k) == CHOOSE i \in keep : Cardinality({j \in keep : j < i}) = k - 1
  IN  [k \in 1..Cardinality(keep) |-> f[nth(k)]]

\* _NimueConnectionPoolMember.healthcheck. With the builtin callbacks the
\* probe query succeeds exactly on a live session; the callback "false"
\* returns False whatever the session.
\* s: the sessions' states ("none", "open", "dead", "closed").
healthcheck(s, m) == healthcheck_callback = "std" /\ s[m] = "open"

\* conn.close() and conn.rollback() can raise on a dead session only.
mayRaise(s, m) == m \in Members /\ s[m] = "dead"

\* A member object not owned by the pool and not referenced by a handle.
Unused(m) == m \notin pool /\ \A h \in Handles : hmember[h] # m
CanCreate == \E m \in Members : Unused(m)
NewMember == CHOOSE m \in Members : Unused(m) /\ \A k \in Members : Unused(k) => m <= k

\* _lock.notify(): the oldest waiter is made runnable (it still has to take
\* the lock again).
notified(w) == IF w = <<>> THEN w ELSE Tail(w)
notifiedPc(p, w) == IF w = <<>> THEN p ELSE [p EXCEPT ![Head(w)] = "g_woken"]

\* Faulty variants of some of the operators that follow; a property that
\* is said to depend on one of them has to fail with the variant in its
\* place.
hasRoomOffByOne == Cardinality(pool) <= poolmax
waitPredicateIgnored == TRUE
alreadyClosedIgnored(h) == FALSE
lockKeptOnRaise(t) == t
paramsAcceptedNoInitCap(a) ==
  /\ ~(a.poolmin < 0)
  /\ ~(a.poolinit # <<>> /\ a.poolinit[1] < a.poolmin)
  /\ ~(a.poolmax < 1)
  /\ ~(a.poolmax < a.poolmin)
  /\ ~(a.cleanup_interval <= 0)
  /\ ~(a.idle_timeout < 0)
  /\ a.healthcheck_callback # "notcallable"
initialAlwaysPoolmin(pinit, pmin) == pmin
idleTargetIgnoresPoolmin(p, f) == Len(f)
addTargetNone(p) == 0
countedTwice(c) == c + 2
deadPositionsNone(f, s) == {}
joinedAtOnce == TRUE
setterAcceptsAbovePoolmax(f, v) ==
  CASE f = "poolmin"      -> ~(v < 0)
    [] f = "poolmax"      -> ~(v < 1) /\ ~(v < poolmin)
    [] f = "cleanup_interval" -> ~(v <= 0)
    [] f = "idle_timeout" -> ~(v < 0)

\* Line 340, the test that lets getconnection open a new connection.
hasRoom == Cardinality(pool) < poolmax

\* Lines 358 and 360, the predicate of wait_for.
waitPredicate == free # <<>>

\* Line 465, _free.insert(0, member): f with m put back.
returned(f, m) == <<m>> \o f

\* Line 452, the test of _closed.
alreadyClosed(h) == hstate[h] = "closed"

\* Lines 321-322: the holder of _lock once an exception has left the with
\* block of thread t, the ExitStack having released the lock.
lockAfterRaise(t) == NoThread

\* ------------------------------------------------------------------- Init
\* The pool right after __init__: poolinit (or poolmin) members, each put at
\* the head of _free by _addconnection, nothing in use, counters 0.
Init ==
  /\ \E pmin \in 0..MaxPoolMax, pmax \in 1..MaxPoolMax, pinit \in 0..MaxPoolMax :
       /\ pmin <= pmax
       /\ pmin <= pinit /\ pinit <= pmax
       /\ poolmin = pmin /\ poolmax = pmax
       /\ pool = 1..pinit
       /\ free = [i \in 1..pinit |-> pinit + 1 - i]
  /\ use = {}
  /\ sess = [m \in Members |-> IF m \in pool THEN "open" ELSE "none"]
  /\ create_time = [m \in Members |-> 0]
  /\ touch_time = [m \in Members |-> 0]
  /\ now = 0
  /\ idle_timeout \in {0, 1}
  /\ hc_on_get \in BOOLEAN
  /\ healthcheck_callback = "std"
  /\ cleanup_interval = 1
  /\ kpc = "done"
  /\ initial = Unset
  /\ cleaned_dead = 0 /\ cleaned_idle = 0 /\ cleanup_cycles = 0
  /\ exitevent = FALSE
  /\ lockOwner = NoThread
  /\ waiters = <<>>
  /\ pc = [t \in Callers |-> "idle"]
  /\ mode = [t \in Callers |-> "block"]
  /\ hnd = [t \in Callers |-> t]
  /\ hstate = [h \in Handles |-> "none"]
  /\ hmember = [h \in Handles |-> 0]
  /\ ret = "none"
  /\ jpc = "sleep"
  /\ cpc = "open"
  /\ spc = [x \in Setters |-> "idle"]
  /\ sfield = [x \in Setters |-> "none"]
  /\ sval = [x \in Setters |-> 0]
  /\ faults = 0 /\ nsets = 0

\* --------------------------------------------------------------- __init__
\* The arguments given to NimueConnectionPool(): poolinit is <<>> for None
\* and <<n>> for the number n; healthcheck_callback is one of the two
\* callables or a value that is not callable.
CtorArgs ==
  [poolinit : {<<>>} \cup {<<n>> : n \in 0..MaxPoolMax},
   poolmin : -1..MaxPoolMax,
   poolmax : 0..MaxPoolMax,
   cleanup_interval : 0..1,
   idle_timeout : -1..1,
   healthcheck_on_getconnection : BOOLEAN,
   healthcheck_callback : {"std", "false", "notcallable"}]

\* Lines 69-84: no validation raises.
paramsAccepted(a) ==
  /\ ~(a.poolmin < 0)
  /\ ~(a.poolinit # <<>> /\ a.poolinit[1] < a.poolmin)
  /\ ~(a.poolmax < 1)
  /\ ~(a.poolinit # <<>> /\ a.poolmax < a.poolinit[1])
  /\ ~(a.poolmax < a.poolmin)
  /\ ~(a.cleanup_interval <= 0)
  /\ ~(a.idle_timeout < 0)
  /\ a.healthcheck_callback # "notcallable"

\* Lines 108-111.
initialSize(pinit, pmin) == IF pinit = <<>> THEN pmin ELSE pinit[1]

\* The object at line 66: the lock, the event, the empty collections and
\* the cleanup thread object exist, no other attribute does (Unset, FALSE
\* and "unset" stand for them; nothing reads them before line 87).
InitCtor ==
  /\ pool = {} /\ free = <<>> /\ use = {}
  /\ sess = [m \in Members |-> "none"]
  /\ create_time = [m \in Members |-> 0]
  /\ touch_time = [m \in Members |-> 0]
  /\ now = 0
  /\ poolmin = Unset /\ poolmax = Unset /\ idle_timeout = Unset
  /\ hc_on_get = FALSE /\ healthcheck_callback = "unset"
  /\ cleanup_interval = Unset
  /\ kpc = "new"
  /\ initial = Unset
  /\ cleaned_dead = Unset /\ cleaned_idle = Unset /\ cleanup_cycles = Unset
  /\ exitevent = FALSE
  /\ lockOwner = NoThread
  /\ waiters = <<>>
  /\ pc = [t \in Callers |-> "idle"]
  /\ mode = [t \in Callers |-> "block"]
  /\ hnd = [t \in Callers |-> t]
  /\ hstate = [h \in Handles |-> "none"]
  /\ hmember = [h \in Handles |-> 0]
  /\ ret = "none"
  /\ jpc = "new"
  /\ cpc = "open"
  /\ spc = [x \in Setters |-> "idle"]
  /\ sfield = [x \in Setters |-> "none"]
  /\ sval = [x \in Setters |-> 0]
  /\ faults = 0 /\ nsets = 0

\* Lines 69-111 with the arguments a: the validations, then the attributes,
\* the counters and the local variable initial.
CtorValidate(a) ==
  /\ kpc = "new"
  /\ IF paramsAccepted(a)
       THEN /\ kpc' = "opening"
            /\ poolmin' = a.poolmin
            /\ poolmax' = a.poolmax
            /\ cleanup_interval' = a.cleanup_interval
            /\ idle_timeout' = a.idle_timeout
            /\ hc_on_get' = a.healthcheck_on_getconnection
            /\ healthcheck_callback' = a.healthcheck_callback
            /\ cleaned_dead' = 0 /\ cleaned_idle' = 0 /\ cleanup_cycles' = 0
            /\ initial' = initialSize(a.poolinit, a.poolmin)
            /\ ret' = "none"
       ELSE /\ kpc' = "raised"
            /\ ret' = "InvalidParameter"
            /\ UNCHANGED <<cfgVars, statVars, initial>>
  /\ UNCHANGED <<poolVars, now, exitevent, lockOwner, waiters, pc, mode, hnd,
                 hndVars, jpc, cpc, setVars, faults>>

\* Lines 112-113, one turn of the loop: _addconnection opens a session.
CtorOpen ==
  /\ kpc = "opening"
  /\ Cardinality(pool) < initial
  /\ CanCreate
  /\ LET m == NewMember
     IN  /\ pool' = pool \cup {m}
         /\ free' = <<m>> \o free
         /\ sess' = [sess EXCEPT ![m] = "open"]
         /\ create_time' = [create_time EXCEPT ![m] = now]
         /\ touch_time' = [touch_time EXCEPT ![m] = now]
  /\ ret' = "none"
  /\ UNCHANGED <<use, now, cfgVars, ctorVars, statVars, exitevent, lockOwner,
                 waiters, pc, mode, hnd, hndVars, jpc, cpc, setVars, faults>>

\* Line 113 (or the connection _finddbmodule opens when _free is empty,
\* line 285) when connfunc raises: the exception leaves __init__.
CtorOpenFail ==
  /\ kpc = "opening"
  /\ Cardinality(pool) < initial \/ free = <<>>
  /\ faults < MaxFaults
  /\ faults' = faults + 1
  /\ kpc' = "raised"
  /\ initial' = Unset
  /\ ret' = "ConnectError"
  /\ UNCHANGED <<poolVars, now, cfgVars, statVars, exitevent, lockOwner,
                 waiters, pc, mode, hnd, hndVars, jpc, cpc, setVars>>

\* Lines 117-120: the loop has ended, the driver module is found and the
\* cleanup thread started; __init__ returns.
CtorStart ==
  /\ kpc = "opening"
  /\ ~(Cardinality(pool) < initial)
  /\ kpc' = "done"
  /\ initial' = Unset
  /\ jpc' = "sleep"
  /\ ret' = "none"
  /\ UNCHANGED <<poolVars, now, cfgVars, statVars, exitevent, lockOwner,
                 waiters, pc, mode, hnd, hndVars, cpc, setVars, faults>>

\* Lines 122-125 after __init__ has raised: __del__ calls close(), which
\* sets _exitevent; the join of the thread that was never started raises,
\* and nothing in the pool's code closes a session. Whether the driver
\* closes a session when its connection object is collected is not in the
\* pool's hands: either outcome.
CtorDel ==
  /\ kpc = "raised"
  /\ kpc' = "deleted"
  /\ exitevent' = TRUE
  /\ \E finalized \in BOOLEAN :
       sess' = [m \in Members |->
                 IF finalized /\ sess[m] = "open" THEN "closed" ELSE sess[m]]
  /\ ret' = "none"
  /\ UNCHANGED <<pool, free, use, create_time, touch_time, now, cfgVars,
                 initial, statVars, lockOwner, waiters, pc, mode, hnd, hndVars,
                 jpc, cpc, setVars, faults>>

\* ---------------------------------------------------------- getconnection
\* Timestamps of a member that left the pool are never read again
\* (_cleanpool reads those of free members only): they are dropped.
forget(tm, m) == [tm EXCEPT ![m] = 0]

\* No caller is inside close() of handle h.
NotClosing(h) == \A u \in Callers : pc[u] \in {"c_lock", "c_fin"} => hnd[u] # h

\* getconnection(blocking, timeout) up to the test of _exitevent (lines
\* 308-325), when _lock.acquire succeeds. md: "block" (no timeout), "timed"
\* (blocking with a timeout), "nonblock".
GetStart(t, md) ==
  /\ pc[t] = "idle"
  /\ hstate[t] # "open"
  /\ NotClosing(t)
  /\ lockOwner = NoThread
  /\ IF exitevent
       THEN /\ ret' = "PoolClosed"
            /\ UNCHANGED <<pc, mode, lockOwner>>
       ELSE /\ pc' = [pc EXCEPT ![t] = "g_loop"]
            /\ mode' = [mode EXCEPT ![t] = md]
            /\ lockOwner' = t
            /\ ret' = "none"
  /\ UNCHANGED <<poolVars, now, cfgVars, ctorVars, statVars, exitevent, waiters,
                 hnd, hndVars, jpc, cpc, setVars, faults>>

\* _lock.acquire(blocking, timeout) returns False, the lock being held by
\* another thread (lines 315-318).
GetAcquireFail(t, md) ==
  /\ pc[t] = "idle"
  /\ hstate[t] # "open"
  /\ NotClosing(t)
  /\ lockOwner # NoThread
  /\ md \in {"nonblock", "timed"}
  /\ ret' = "None"
  /\ UNCHANGED <<poolVars, now, cfgVars, ctorVars, statVars, exitevent, lockOwner, waiters,
                 pc, mode, hnd, hndVars, jpc, cpc, setVars, faults>>

\* Lines 331-338 and 343-350: candidate m has been popped; p, f, s, ct, tt, w
\* and q are _pool, _free, the sessions, the timestamps, the waiters and the
\* callers' places at that point.
Candidate(t, m, p, f, s, ct, tt, w, q) ==
  IF hc_on_get /\ ~healthcheck(s, m)
    THEN \/ \* member.close() raises: the exception leaves getconnection
            /\ mayRaise(s, m)
            /\ pool' = p /\ free' = f /\ sess' = s
            /\ create_time' = ct /\ touch_time' = tt
            /\ lockOwner' = NoThread
            /\ pc' = [q EXCEPT ![t] = "idle"]
            /\ mode' = [mode EXCEPT ![t] = "block"]
            /\ ret' = "error"
            /\ waiters' = w
            /\ UNCHANGED <<use, hndVars>>
         \/ \* closed, removed from _pool, and the loop starts over
            /\ pool' = p \ {m} /\ free' = f
            /\ sess' = [s EXCEPT ![m] = "closed"]
            /\ create_time' = forget(ct, m) /\ touch_time' = forget(tt, m)
            /\ pc' = q
            /\ waiters' = w
            /\ ret' = "none"
            /\ UNCHANGED <<use, hndVars, lockOwner, mode>>
    ELSE /\ pool' = p /\ free' = f /\ sess' = s
         /\ create_time' = ct /\ touch_time' = tt
         /\ use' = use \cup {m}
         /\ hstate' = [hstate EXCEPT ![t] = "open"]
         /\ hmember' = [hmember EXCEPT ![t] = m]
         /\ lockOwner' = NoThread
         /\ pc' = [q EXCEPT ![t] = "idle"]
         /\ mode' = [mode EXCEPT ![t] = "block"]
         /\ ret' = "handle"
         /\ waiters' = w

\* Lines 329-338: a free connection exists.
GetFromFree(t) ==
  /\ pc[t] = "g_loop"
  /\ free # <<>>
  /\ Candidate(t, Head(free), pool, Tail(free), sess, create_time, touch_time,
               waiters, pc)
  /\ UNCHANGED <<now, cfgVars, ctorVars, statVars, exitevent, hnd, jpc, cpc,
                 setVars, faults>>

\* Lines 340-350: no free connection, room for a new one. _addconnection
\* puts the new member at the head of _free and notifies; it is popped at
\* once. born: the state of the new session when it is probed.
GetGrow(t) ==
  /\ pc[t] = "g_loop"
  /\ free = <<>>
  /\ hasRoom
  /\ CanCreate
  /\ \E born \in {"open", "dead"} :
       /\ born # "open" => faults < MaxFaults
       /\ faults' = IF born = "open" THEN faults ELSE faults + 1
       /\ LET m == NewMember
          IN  Candidate(t, m, pool \cup {m}, free,
                        [sess EXCEPT ![m] = born],
                        [create_time EXCEPT ![m] = now],
                        [touch_time EXCEPT ![m] = now],
                        notified(waiters), notifiedPc(pc, waiters))
  /\ UNCHANGED <<now, cfgVars, ctorVars, statVars, exitevent, hnd, jpc, cpc, setVars>>

\* Line 341 when connfunc raises: the exception leaves getconnection.
GetGrowFail(t) ==
  /\ pc[t] = "g_loop"
  /\ free = <<>>
  /\ hasRoom
  /\ faults < MaxFaults
  /\ faults' = faults + 1
  /\ lockOwner' = lockAfterRaise(t)
  /\ pc' = [pc EXCEPT ![t] = "idle"]
  /\ mode' = [mode EXCEPT ![t] = "block"]
  /\ ret' = "ConnectError"
  /\ UNCHANGED <<poolVars, now, cfgVars, ctorVars, statVars, exitevent, waiters,
                 hnd, hndVars, jpc, cpc, setVars>>

\* Lines 353-360: neither; give up or enter _lock.wait_for.
GetAtMax(t) ==
  /\ pc[t] = "g_loop"
  /\ free = <<>>
  /\ ~hasRoom
  /\ lockOwner' = NoThread
  /\ IF mode[t] = "nonblock"
       THEN /\ pc' = [pc EXCEPT ![t] = "idle"]
            /\ mode' = [mode EXCEPT ![t] = "block"]
            /\ ret' = "None"
            /\ UNCHANGED waiters
       ELSE /\ pc' = [pc EXCEPT ![t] = "g_wait"]
            /\ waiters' = Append(waiters, t)
            /\ ret' = "none"
            /\ UNCHANGED <<mode>>
  /\ UNCHANGED <<poolVars, now, cfgVars, ctorVars, statVars, exitevent, hnd,
                 hndVars, jpc, cpc, setVars, faults>>

\* wait_for after a notify: the lock is taken again and the predicate
\* len(_free) > 0 evaluated; if it is false the thread waits again, or, with
\* a timeout that has run out meanwhile, getconnection returns None.
GetWake(t) ==
  /\ pc[t] = "g_woken"
  /\ lockOwner = NoThread
  /\ IF waitPredicate
       THEN /\ pc' = [pc EXCEPT ![t] = "g_loop"]
            /\ lockOwner' = t
            /\ ret' = "none"
            /\ UNCHANGED <<waiters, mode>>
       ELSE /\ UNCHANGED lockOwner
            /\ \/ /\ pc' = [pc EXCEPT ![t] = "g_wait"]
                  /\ waiters' = Append(waiters, t)
                  /\ ret' = "none"
                  /\ UNCHANGED <<mode>>
               \/ /\ mode[t] = "timed"
                  /\ pc' = [pc EXCEPT ![t] = "idle"]
                  /\ mode' = [mode EXCEPT ![t] = "block"]
                  /\ ret' = "None"
                  /\ UNCHANGED waiters
  /\ UNCHANGED <<poolVars, now, cfgVars, ctorVars, statVars, exitevent, hnd,
                 hndVars, jpc, cpc, setVars, faults>>

\* The timeout of wait_for runs out: the thread leaves the waiters.
GetTimeout(t) ==
  /\ pc[t] = "g_wait"
  /\ mode[t] = "timed"
  /\ pc' = [pc EXCEPT ![t] = "g_tmo"]
  /\ waiters' = SelectSeq(waiters, LAMBDA w : w # t)
  /\ ret' = "none"
  /\ UNCHANGED <<poolVars, now, cfgVars, ctorVars, statVars, exitevent, lockOwner, mode,
                 hnd, hndVars, jpc, cpc, setVars, faults>>

\* ... takes the lock again and evaluates the predicate a last time
\* (lines 360-362).
GetTimeoutResume(t) ==
  /\ pc[t] = "g_tmo"
  /\ lockOwner = NoThread
  /\ IF waitPredicate
       THEN /\ pc' = [pc EXCEPT ![t] = "g_loop"]
            /\ lockOwner' = t
            /\ ret' = "none"
            /\ UNCHANGED <<mode>>
       ELSE /\ pc' = [pc EXCEPT ![t] = "idle"]
            /\ mode' = [mode EXCEPT ![t] = "block"]
            /\ ret' = "None"
            /\ UNCHANGED lockOwner
  /\ UNCHANGED <<poolVars, now, cfgVars, ctorVars, statVars, exitevent, waiters,
                 hnd, hndVars, jpc, cpc, setVars, faults>>

\* ------------------------------------------------- NimueConnection.close
\* close() of handle h up to the rollback (lines 452-462). The tests of
\* _closed and of _exitevent and the rollback are made without the lock.
CloseStart(t, h) ==
  /\ pc[t] = "idle"
  /\ hstate[h] # "none"
  /\ IF alreadyClosed(h)
       THEN /\ ret' = "noop"
            /\ UNCHANGED <<pc, hnd, sess, hstate>>
       ELSE LET m == hmember[h] IN
            IF exitevent
              THEN \/ \* conn.close() raises
                      /\ mayRaise(sess, m)
                      /\ ret' = "error"
                      /\ UNCHANGED <<pc, hnd, sess, hstate>>
                   \/ /\ sess' = [sess EXCEPT ![m] = "closed"]
                      /\ hstate' = [hstate EXCEPT ![h] = "closed"]
                      /\ ret' = "rawclosed"
                      /\ UNCHANGED <<pc, hnd>>
              ELSE \/ \* conn.rollback() raises
                      /\ mayRaise(sess, m)
                      /\ ret' = "error"
                      /\ UNCHANGED <<pc, hnd, sess, hstate>>
                   \/ /\ pc' = [pc EXCEPT ![t] = "c_lock"]
                      /\ hnd' = [hnd EXCEPT ![t] = h]
                      /\ ret' = "none"
                      /\ UNCHANGED <<sess, hstate>>
  /\ UNCHANGED <<pool, free, use, create_time, touch_time, now, cfgVars, ctorVars, statVars,
                 exitevent, lockOwner, waiters, mode, hmember, jpc, cpc, setVars,
                 faults>>

\* Lines 463-467, the part of close() under the lock. Another close() of
\* the same handle may have deleted _member and _pool already (the
\* attribute lookup fails) or taken the member out of _use (KeyError).
CloseLocked(t) ==
  /\ pc[t] = "c_lock"
  /\ LET h == hnd[t]
         m == hmember[h]
     IN  IF m = 0
           THEN /\ pc' = [pc EXCEPT ![t] = "idle"]
                /\ hnd' = [hnd EXCEPT ![t] = t]
                /\ ret' = "error"
                /\ UNCHANGED <<use, free, touch_time, waiters>>
           ELSE /\ lockOwner = NoThread
                /\ IF m \notin use
                     THEN /\ pc' = [pc EXCEPT ![t] = "idle"]
                          /\ hnd' = [hnd EXCEPT ![t] = t]
                          /\ ret' = "error"
                          /\ UNCHANGED <<use, free, touch_time, waiters>>
                     ELSE /\ use' = use \ {m}
                          /\ free' = returned(free, m)
                          /\ touch_time' = [touch_time EXCEPT ![m] = now]
                          /\ waiters' = notified(waiters)
                          /\ pc' = [notifiedPc(pc, waiters) EXCEPT ![t] = "c_fin"]
                          /\ ret' = "none"
                          /\ UNCHANGED <<hnd>>
  /\ UNCHANGED <<pool, sess, create_time, now, cfgVars, ctorVars, statVars, exitevent,
                 lockOwner, mode, hndVars, jpc, cpc, setVars, faults>>

\* The same part of close() when another caller u, which has finished its
\* own locked part for the same handle, deletes _member and _pool (lines
\* 469-472) between line 464 and line 465 of t: t has taken the member out
\* of _use and fails on the attribute lookup of line 465.
CloseLockedTorn(t, u) ==
  /\ t # u
  /\ pc[t] = "c_lock" /\ pc[u] = "c_fin" /\ hnd[u] = hnd[t]
  /\ lockOwner = NoThread
  /\ hmember[hnd[t]] \in use
  /\ use' = use \ {hmember[hnd[t]]}
  /\ hmember' = [hmember EXCEPT ![hnd[t]] = 0]
  /\ hstate' = [hstate EXCEPT ![hnd[t]] = "closed"]
  /\ pc' = [pc EXCEPT ![t] = "idle", ![u] = "idle"]
  /\ hnd' = [hnd EXCEPT ![t] = t, ![u] = u]
  /\ ret' = "error"
  /\ UNCHANGED <<pool, free, sess, create_time, touch_time, now, cfgVars, ctorVars,
                 statVars, exitevent, lockOwner, waiters, mode, jpc, cpc,
                 setVars, faults>>

\* The same, with the deletion by u between line 465 and line 466 of t: t
\* has put the member at the head of _free and fails on the attribute
\* lookup of self._member.touch(); the member keeps the _touch_time it had
\* and notify() is not reached.
CloseLockedTornTouch(t, u) ==
  /\ t # u
  /\ pc[t] = "c_lock" /\ pc[u] = "c_fin" /\ hnd[u] = hnd[t]
  /\ lockOwner = NoThread
  /\ hmember[hnd[t]] \in use
  /\ use' = use \ {hmember[hnd[t]]}
  /\ free' = returned(free, hmember[hnd[t]])
  /\ hmember' = [hmember EXCEPT ![hnd[t]] = 0]
  /\ hstate' = [hstate EXCEPT ![hnd[t]] = "closed"]
  /\ pc' = [pc EXCEPT ![t] = "idle", ![u] = "idle"]
  /\ hnd' = [hnd EXCEPT ![t] = t, ![u] = u]
  /\ ret' = "error"
  /\ UNCHANGED <<pool, sess, create_time, touch_time, now, cfgVars, ctorVars,
                 statVars, exitevent, lockOwner, waiters, mode, jpc, cpc,
                 setVars, faults>>

\* Lines 469-472: the references are deleted and _closed is set.
CloseFinish(t) ==
  /\ pc[t] = "c_fin"
  /\ hmember' = [hmember EXCEPT ![hnd[t]] = 0]
  /\ hstate' = [hstate EXCEPT ![hnd[t]] = "closed"]
  /\ pc' = [pc EXCEPT ![t] = "idle"]
  /\ hnd' = [hnd EXCEPT ![t] = t]
  /\ ret' = "returned"
  /\ UNCHANGED <<poolVars, now, cfgVars, ctorVars, statVars, exitevent, lockOwner, waiters,
                 mode, jpc, cpc, setVars, faults>>

\* ------------------------------ NimueConnection.__enter__ and __exit__
\* `with handle:` in caller t, on the handle it got. __enter__ (lines
\* 442-444) calls the session's __enter__ and returns the handle.
ScopeEnter(t) ==
  /\ pc[t] = "idle"
  /\ hstate[t] = "open"
  /\ pc' = [pc EXCEPT ![t] = "in_scope"]
  /\ ret' = "entered"
  /\ UNCHANGED <<poolVars, now, cfgVars, ctorVars, statVars, exitevent, lockOwner,
                 waiters, mode, hnd, hndVars, jpc, cpc, setVars, faults>>

\* The end of the block: __exit__ (lines 446-447) calls the session's
\* __exit__, which ends the transaction and can raise on a dead session,
\* and nothing else.
ScopeExit(t) ==
  /\ pc[t] = "in_scope"
  /\ pc' = [pc EXCEPT ![t] = "idle"]
  /\ \/ ret' = "exited"
     \/ mayRaise(sess, hmember[t]) /\ ret' = "error"
  /\ UNCHANGED <<poolVars, now, cfgVars, ctorVars, statVars, exitevent, lockOwner,
                 waiters, mode, hnd, hndVars, jpc, cpc, setVars, faults>>

\* ------------------------------------------------------------- _cleanpool
\* The sort key of lines 254 and 268, (now - _touch_time, _create_time),
\* under sorted(..., reverse=True): position i of f comes before position j
\* when its key is greater, and, the sort being stable, equal keys keep the
\* order of the positions.
precedes(f, tt, ct, i, j) ==
  LET ai == now - tt[f[i]]
      aj == now - tt[f[j]]
  IN  \/ ai > aj
      \/ ai = aj /\ ct[f[i]] > ct[f[j]]
      \/ ai = aj /\ ct[f[i]] = ct[f[j]] /\ i < j

\* The first n positions of the candidates C of f in that order.
firstSorted(f, tt, ct, C, n) ==
  {i \in C : Cardinality({j \in C : precedes(f, tt, ct, j, i)}) < n}

\* Lines 228-238: the positions of _free whose member fails the probe.
deadPositions(f, s) == {i \in 1..Len(f) : ~healthcheck(s, f[i])}

\* Lines 241-243.
idleTarget(p, f) == Min2(Cardinality(p) - poolmin, Len(f))

\* Lines 246-254: the positions of _free the idle trim removes.
idlePositions(p, f, tt, ct) ==
  IF idleTarget(p, f) > 0
    THEN firstSorted(f, tt, ct,
                     {i \in 1..Len(f) : now - tt[f[i]] > idle_timeout},
                     idleTarget(p, f))
    ELSE {}

\* Lines 266-268: the positions of _free the trim to poolmax removes.
excessPositions(p, f, tt, ct) ==
  IF Cardinality(p) - poolmax > 0
    THEN firstSorted(f, tt, ct, 1..Len(f), Cardinality(p) - poolmax)
    ELSE {}

\* Line 268 reads `now`, which line 248 binds only when idletarget > 0: with
\* something to sort the lookup raises NameError and ends the cycle.
nowUnbound(p1, f1, p2, f2) ==
  Cardinality(p2) - poolmax > 0 /\ idleTarget(p1, f1) <= 0 /\ f2 # <<>>

\* Line 273: the number of sessions the refill is to open.
addTarget(p) == poolmin - Cardinality(p)

\* The n smallest unused member objects, as the sequence _free gets in front
\* after n calls of _addconnection (the last one made is at the head).
RECURSIVE newMembers(_, _)
newMembers(U, n) ==
  IF n = 0 THEN <<>>
  ELSE LET m == CHOOSE x \in U : \A y \in U : x <= y
       IN  Append(newMembers(U \ {m}, n - 1), m)

RECURSIVE notifiedN(_, _)
notifiedN(w, n) == IF n = 0 \/ w = <<>> THEN w ELSE notifiedN(Tail(w), n - 1)

\* _NimueCleanupThread.run: exitevent.wait(timeout=cleanup_interval)
\* returned False, a _NimueSubCleanupThread is started (lines 32-34).
JanitorWake ==
  /\ jpc = "sleep"
  /\ ~exitevent
  /\ cleanup_cycles < MaxCycles
  /\ jpc' = "clean"
  /\ ret' = "none"
  /\ UNCHANGED <<poolVars, now, cfgVars, ctorVars, statVars, exitevent, lockOwner, waiters,
                 pc, mode, hnd, hndVars, cpc, setVars, faults>>

\* exitevent.wait returned True: the cleanup thread ends (line 32).
JanitorExit ==
  /\ jpc = "sleep"
  /\ exitevent
  /\ jpc' = "exited"
  /\ ret' = "none"
  /\ UNCHANGED <<poolVars, now, cfgVars, ctorVars, statVars, exitevent, lockOwner, waiters,
                 pc, mode, hnd, hndVars, cpc, setVars, faults>>

\* _cleanpool, lines 223-279, all of it under the lock. A close() that
\* raises in lines 232-235 and 255-258 is swallowed. made: the number of
\* _addconnection calls of the refill that succeed, out of the addtarget
\* calls the loop of lines 275-279 makes; last: how the last of them ended.
cleanpool ==
  /\ jpc = "clean"
  /\ lockOwner = NoThread
  /\ LET dpos  == deadPositions(free, sess)
         dmem  == {free[i] : i \in dpos}
         f1    == KeepSeq(free, dpos)
         p1    == pool \ dmem
         ipos  == idlePositions(p1, f1, touch_time, create_time)
         imem  == {f1[i] : i \in ipos}
         f2    == KeepSeq(f1, ipos)
         p2    == p1 \ imem
         xpos  == excessPositions(p2, f2, touch_time, create_time)
         xmem  == {f2[i] : i \in xpos}
         f3    == KeepSeq(f2, xpos)
         p3    == p2 \ xmem
         gone  == dmem \cup imem \cup xmem
         s3    == [m \in Members |->
                     IF m \in dmem \cup imem THEN "closed" ELSE sess[m]]
         tt3   == [m \in Members |-> IF m \in gone THEN 0 ELSE touch_time[m]]
         ct3   == [m \in Members |-> IF m \in gone THEN 0 ELSE create_time[m]]
         addtarget == addTarget(p3)
         avail == {m \in Members : Unused(m)}
     IN  /\ cleaned_dead' = cleaned_dead + Cardinality(dpos)
         /\ cleaned_idle' = cleaned_idle + Cardinality(ipos)
         /\ IF nowUnbound(p1, f1, p2, f2)
              THEN /\ pool' = p2 /\ free' = f2
                   /\ sess' = s3
                   /\ touch_time' = [m \in Members |->
                                       IF m \in dmem \cup imem THEN 0 ELSE touch_time[m]]
                   /\ create_time' = [m \in Members |->
                                       IF m \in dmem \cup imem THEN 0 ELSE create_time[m]]
                   /\ jpc' = "sleep"
                   /\ ret' = "none"
                   /\ UNCHANGED <<waiters, pc, faults>>
              ELSE IF addtarget > 0
                THEN \E made \in 0..addtarget, last \in {"connected", "connect_failed"} :
                       /\ made <= Cardinality(avail)
                       /\ faults + (addtarget - made) <= MaxFaults
                       /\ faults' = faults + (addtarget - made)
                       /\ made = 0 => last = "connect_failed"
                       /\ made = addtarget => last = "connected"
                       /\ ret' = last
                       /\ LET nm == newMembers(avail, made)
                          IN  /\ pool' = p3 \cup SeqSet(nm)
                              /\ free' = nm \o f3
                              /\ sess' = [m \in Members |->
                                            IF m \in SeqSet(nm) THEN "open" ELSE s3[m]]
                              /\ touch_time' = [m \in Members |->
                                            IF m \in SeqSet(nm) THEN now ELSE tt3[m]]
                              /\ create_time' = [m \in Members |->
                                            IF m \in SeqSet(nm) THEN now ELSE ct3[m]]
                       /\ waiters' = notifiedN(waiters, made)
                       /\ pc' = [t \in Callers |->
                                   IF \E i \in 1..Min2(made, Len(waiters)) : waiters[i] = t
                                     THEN "g_woken" ELSE pc[t]]
                       /\ jpc' = "count"
                ELSE /\ pool' = p3 /\ free' = f3 /\ sess' = s3
                     /\ touch_time' = tt3 /\ create_time' = ct3
                     /\ jpc' = "count"
                     /\ ret' = "none"
                     /\ UNCHANGED <<waiters, pc, faults>>
  /\ UNCHANGED <<use, now, cfgVars, ctorVars, cleanup_cycles, exitevent, lockOwner, mode,
                 hnd, hndVars, cpc, setVars>>

\* Line 280, after the lock has been released.
counted(c) == c + 1

JanitorCount ==
  /\ jpc = "count"
  /\ cleanup_cycles' = counted(cleanup_cycles)
  /\ jpc' = "sleep"
  /\ ret' = "none"
  /\ UNCHANGED <<poolVars, now, cfgVars, ctorVars, cleaned_dead, cleaned_idle, exitevent,
                 lockOwner, waiters, pc, mode, hnd, hndVars, cpc, setVars,
                 faults>>

\* ---------------------------------------------- NimueConnectionPool.close
\* Line 384.
PoolCloseStart ==
  /\ cpc = "open"
  /\ exitevent' = TRUE
  /\ cpc' = "joining"
  /\ ret' = "none"
  /\ UNCHANGED <<poolVars, now, cfgVars, ctorVars, statVars, lockOwner, waiters, pc, mode,
                 hnd, hndVars, jpc, setVars, faults>>

\* Line 385: join returns once the cleanup thread has ended, and close()
\* returns.
joined == jpc = "exited"

PoolCloseJoin ==
  /\ cpc = "joining"
  /\ joined
  /\ cpc' = "closed"
  /\ ret' = "none"
  /\ UNCHANGED <<poolVars, now, cfgVars, ctorVars, statVars, exitevent, lockOwner, waiters,
                 pc, mode, hnd, hndVars, jpc, setVars, faults>>

\* ------------------------------------------------------------- poolstats
\* The NimueConnectionPoolStats object of lines 372-376, read under the lock.
poolstats ==
  [poolsize |-> Cardinality(pool), poolused |-> Cardinality(use),
   poolfree |-> Len(free), cleaned_dead |-> cleaned_dead,
   cleaned_idle |-> cleaned_idle, cleanup_cycles |-> cleanup_cycles]

\* A call of poolstats() by any thread: it takes the lock, reads and
\* returns; the object it returns is poolstats of the state it ran in.
PoolStats ==
  /\ lockOwner = NoThread
  /\ ret' = "stats"
  /\ UNCHANGED <<poolVars, now, cfgVars, ctorVars, statVars, exitevent, lockOwner,
                 waiters, pc, mode, hnd, hndVars, jpc, cpc, setVars, faults>>

\* -------------------------------------------------------- property setters
\* The range checks of the poolmin, poolmax, cleanup_interval and
\* idle_timeout setters (lines 166-169, 182-185, 197-198, 210-211). self.poolmax / self.poolmin are read through
\* the property, under the lock, which is released again before the write.
setterAccepts(f, v) ==
  CASE f = "poolmin"      -> ~(v < 0) /\ ~(v > poolmax)
    [] f = "poolmax"      -> ~(v < 1) /\ ~(v < poolmin)
    [] f = "cleanup_interval" -> ~(v <= 0)
    [] f = "idle_timeout" -> ~(v < 0)

SetCheck(x, f, v) ==
  /\ spc[x] = "idle"
  /\ nsets < MaxSets
  /\ lockOwner = NoThread
  /\ nsets' = nsets + 1
  /\ IF setterAccepts(f, v)
       THEN /\ spc' = [spc EXCEPT ![x] = "write"]
            /\ sfield' = [sfield EXCEPT ![x] = f]
            /\ sval' = [sval EXCEPT ![x] = v]
       ELSE UNCHANGED <<spc, sfield, sval>>
  /\ ret' = IF setterAccepts(f, v) THEN "none" ELSE "InvalidParameter"
  /\ UNCHANGED <<poolVars, now, cfgVars, ctorVars, statVars, exitevent, lockOwner, waiters,
                 pc, mode, hnd, hndVars, jpc, cpc, faults>>

\* The write under the lock (lines 170-171, 186-187, 199-200, 212-213).
SetWrite(x) ==
  /\ spc[x] = "write"
  /\ lockOwner = NoThread
  /\ poolmin' = IF sfield[x] = "poolmin" THEN sval[x] ELSE poolmin
  /\ poolmax' = IF sfield[x] = "poolmax" THEN sval[x] ELSE poolmax
  /\ cleanup_interval' =
       IF sfield[x] = "cleanup_interval" THEN sval[x] ELSE cleanup_interval
  /\ idle_timeout' = IF sfield[x] = "idle_timeout" THEN sval[x] ELSE idle_timeout
  /\ spc' = [spc EXCEPT ![x] = "idle"]
  /\ sfield' = [sfield EXCEPT ![x] = "none"]
  /\ sval' = [sval EXCEPT ![x] = 0]
  /\ ret' = "none"
  /\ UNCHANGED <<poolVars, now, hc_on_get, healthcheck_callback, ctorVars,
                 statVars, exitevent, lockOwner, waiters, pc, mode, hnd, hndVars,
                 jpc, cpc, nsets, faults>>

\* ------------------------------------------------------------ environment
\* time.monotonic() advances.
Tick ==
  /\ now < MaxTime
  /\ now' = now + 1
  /\ ret' = "none"
  /\ UNCHANGED <<poolVars, cfgVars, ctorVars, statVars, exitevent, lockOwner, waiters, pc,
                 mode, hnd, hndVars, jpc, cpc, setVars, faults>>

\* The session of a pool member dies (the server drops it).
KillSession(m) ==
  /\ m \in pool
  /\ sess[m] = "open"
  /\ faults < MaxFaults
  /\ faults' = faults + 1
  /\ sess' = [sess EXCEPT ![m] = "dead"]
  /\ ret' = "none"
  /\ UNCHANGED <<pool, free, use, create_time, touch_time, now, cfgVars, ctorVars, statVars,
                 exitevent, lockOwner, waiters, pc, mode, hnd, hndVars, jpc,
                 cpc, setVars>>

\* The probe starts to fail on every session, as when the tests replace
\* _NimueConnectionPoolMember.healthcheck by one that returns False.
ProbeBreaks ==
  /\ healthcheck_callback = "std"
  /\ healthcheck_callback' = "false"
  /\ ret' = "none"
  /\ UNCHANGED <<poolVars, now, poolmin, poolmax, idle_timeout, hc_on_get,
                 cleanup_interval, ctorVars, statVars, exitevent, lockOwner,
                 waiters, pc, mode, hnd, hndVars, jpc, cpc, setVars, faults>>

\* ------------------------------------------------------------------- Next
\* The steps of caller t; modes: the blocking / timeout arguments it may give.
CallerStep(t, modes) ==
  \/ \E md \in modes : GetStart(t, md)
  \/ \E md \in modes \ {"block"} : GetAcquireFail(t, md)
  \/ GetFromFree(t)
  \/ GetGrow(t)
  \/ GetGrowFail(t)
  \/ GetAtMax(t)
  \/ GetWake(t)
  \/ GetTimeout(t)
  \/ GetTimeoutResume(t)
  \/ \E h \in Handles : CloseStart(t, h)
  \/ CloseLocked(t)
  \/ \E u \in Callers : CloseLockedTorn(t, u)
  \/ \E u \in Callers : CloseLockedTornTouch(t, u)
  \/ CloseFinish(t)

AllModes == {"block", "timed", "nonblock"}

CallerNext == \E t \in Callers : CallerStep(t, AllModes)

JanitorNext == JanitorWake \/ JanitorExit \/ cleanpool \/ JanitorCount

PoolCloseNext == PoolCloseStart \/ PoolCloseJoin

SetterNext ==
  \E x \in Setters :
    \/ \E v \in -1..MaxPoolMax : SetCheck(x, "poolmin", v)
    \/ \E v \in 0..MaxPoolMax : SetCheck(x, "poolmax", v)
    \/ \E v \in 0..1 : SetCheck(x, "cleanup_interval", v)
    \/ \E v \in -1..1 : SetCheck(x, "idle_timeout", v)
    \/ SetWrite(x)

EnvNext == Tick \/ \E m \in Members : KillSession(m)

ScopeNext == \E t \in Callers : ScopeEnter(t) \/ ScopeExit(t)

Next ==
  \/ CallerNext \/ ScopeNext \/ JanitorNext \/ PoolCloseNext \/ SetterNext
  \/ PoolStats \/ EnvNext

Spec == Init /\ [][Next]_vars

\* ---------------------------------------------------------- sub-systems
\* The whole of Next is beyond exhaustive search; each specification below
\* runs some of the threads, all with the same actions.

\* idle_timeout = 0: a free member is idle as soon as the clock has moved
\* since it was touched (within MaxTime nothing outlives a timeout of 1).
InitShortIdle == Init /\ idle_timeout = 0

\* Two callers, NimueConnectionPool.close and dying sessions; no cleanup
\* cycle runs (cleanup_interval is longer than the run).

NextCallers ==
  \/ \E t \in Callers : CallerStep(t, AllModes)
  \/ PoolCloseNext
  \/ JanitorExit
  \/ \E m \in Members : KillSession(m)

SpecCallers == InitShortIdle /\ [][NextCallers]_vars

\* Two callers, the cleanup thread, time and dying sessions on a pool that
\* is not closed and whose properties are not set. A blocking call without
\* timeout behaves as one with a timeout that never runs out.
NextCleanup ==
  \/ \E t \in Callers : CallerStep(t, {"timed", "nonblock"})
  \/ JanitorWake \/ cleanpool \/ JanitorCount
  \/ EnvNext

SpecCleanup == InitShortIdle /\ [][NextCleanup]_vars

\* Two callers that each make one blocking getconnection without timeout
\* and then close the handle they got, with the cleanup thread and time;
\* no session dies and no connect fails. Every thread that can run does.
LiveStep(t) ==
  \/ hstate[t] = "none" /\ GetStart(t, "block")
  \/ GetFromFree(t)
  \/ GetGrow(t) /\ UNCHANGED faults
  \/ GetAtMax(t)
  \/ GetWake(t)
  \/ hstate[t] = "open" /\ CloseStart(t, t)
  \/ CloseLocked(t)
  \/ CloseFinish(t)

JanitorLive == JanitorWake \/ (cleanpool /\ UNCHANGED faults) \/ JanitorCount

InitLive == Init /\ ~hc_on_get

NextLive == (\E t \in Callers : LiveStep(t)) \/ JanitorLive \/ Tick

SpecLive ==
  /\ InitLive /\ [][NextLive]_vars
  /\ \A t \in Callers : WF_vars(LiveStep(t))
  /\ WF_vars(JanitorLive)

\* The constructor alone, from the object of line 66 to its return or to
\* the collection of the object it failed to build.
NextCtor ==
  \/ \E a \in CtorArgs : CtorValidate(a)
  \/ CtorOpen
  \/ CtorOpenFail
  \/ CtorStart
  \/ CtorDel

SpecCtor == InitCtor /\ [][NextCtor]_vars

\* The cleanup thread with two callers that each make one getconnection and
\* close the handle, time, and sessions that die: free members of several
\* ages, dead ones among them, when a cycle runs.
NextTrim ==
  \/ \E t \in Callers : LiveStep(t)
  \/ JanitorWake \/ cleanpool \/ JanitorCount
  \/ EnvNext

SpecTrim == Init /\ [][NextTrim]_vars

\* The threads that set properties, alone on a pool that is otherwise idle.
SpecSetters == Init /\ [][SetterNext]_vars

\* Two callers, the cleanup thread and two threads that set poolmin and
\* poolmax, on a pool whose sessions all stay alive.
ResizeNext ==
  \E x \in Setters :
    \/ \E v \in -1..MaxPoolMax : SetCheck(x, "poolmin", v)
    \/ \E v \in 0..MaxPoolMax : SetCheck(x, "poolmax", v)
    \/ SetWrite(x)

InitResize == Init /\ ~hc_on_get /\ idle_timeout = 0

NextResize ==
  \/ \E t \in Callers : LiveStep(t)
  \/ JanitorWake \/ cleanpool \/ JanitorCount
  \/ ResizeNext

SpecResize == InitResize /\ [][NextResize]_vars

\* The cleanup thread, time and dying sessions on a pool no caller uses,
\* and a thread that calls poolstats().
NextStats == JanitorWake \/ cleanpool \/ JanitorCount \/ EnvNext \/ PoolStats

SpecStats == Init /\ [][NextStats]_vars

\* The cleanup thread and NimueConnectionPool.close on a pool no caller
\* uses, with time and dying sessions. The cleanup thread and the thread in
\* close() run whenever they can.
NextShutdown == JanitorNext \/ PoolCloseNext \/ EnvNext

SpecShutdown ==
  /\ Init /\ [][NextShutdown]_vars
  /\ WF_vars(JanitorNext) /\ WF_vars(PoolCloseJoin)

\* Two callers that each make one blocking getconnection without timeout
\* and close the handle they got, the cleanup thread, time, and one call of
\* the pool's close(), made while a caller is waiting in wait_for. Every
\* thread that can run does: a caller goes on with the call it is in and
\* closes the handle it holds, the cleanup thread ends once _exitevent is
\* set, and close() returns after its join.
JanitorShut == JanitorLive \/ JanitorExit

CloseOnWaiter == PoolCloseStart /\ \E t \in Callers : pc[t] = "g_wait"

NextWaitClose ==
  \/ \E t \in Callers : LiveStep(t)
  \/ JanitorShut
  \/ CloseOnWaiter
  \/ PoolCloseJoin
  \/ Tick

SpecWaitClose ==
  /\ InitLive /\ [][NextWaitClose]_vars
  /\ \A t \in Callers : WF_vars(LiveStep(t))
  /\ WF_vars(JanitorShut)
  /\ WF_vars(PoolCloseJoin)

\* Two callers that each make one blocking getconnection without timeout
\* and may close the handle they got, and threads that set poolmax, on a
\* pool that is not closed; no session dies and no connect fails. A thread
\* goes on with the call it is in; whether and when a caller calls
\* getconnection or close is the caller's choice.
CallStep(t) ==
  \/ GetFromFree(t)
  \/ GetGrow(t) /\ UNCHANGED faults
  \/ GetAtMax(t)
  \/ GetWake(t)
  \/ CloseLocked(t)
  \/ CloseFinish(t)

SetPoolmax ==
  \E x \in Setters :
    \/ \E v \in 0..MaxPoolMax : SetCheck(x, "poolmax", v)
    \/ SetWrite(x)

NextRoom ==
  \/ \E t \in Callers : LiveStep(t)
  \/ SetPoolmax

SpecRoom ==
  /\ InitLive /\ [][NextRoom]_vars
  /\ \A t \in Callers : WF_vars(CallStep(t))
  /\ \A x \in Setters : WF_vars(SetWrite(x))

\* Two callers and time on a pool of at most two members, one of which was
\* handed out before the run (pool.getconnection() right after the
\* constructor) through a handle that the callers may close like their own.
InitLent ==
  /\ pool = {1} /\ free = <<>> /\ use = {1}
  /\ sess = [m \in Members |-> IF m = 1 THEN "open" ELSE "none"]
  /\ create_time = [m \in Members |-> 0]
  /\ touch_time = [m \in Members |-> 0]
  /\ now = 0
  /\ poolmin = 1 /\ poolmax = 2
  /\ idle_timeout = 1
  /\ hc_on_get = FALSE
  /\ healthcheck_callback = "std"
  /\ cleanup_interval = 1
  /\ kpc = "done"
  /\ initial = Unset
  /\ cleaned_dead = 0 /\ cleaned_idle = 0 /\ cleanup_cycles = 0
  /\ exitevent = FALSE
  /\ lockOwner = NoThread
  /\ waiters = <<>>
  /\ pc = [t \in Callers |-> "idle"]
  /\ mode = [t \in Callers |-> "block"]
  /\ hnd = [t \in Callers |-> t]
  /\ hstate = [h \in Handles |-> IF h = Lent THEN "open" ELSE "none"]
  /\ hmember = [h \in Handles |-> IF h = Lent THEN 1 ELSE 0]
  /\ ret = "none"
  /\ jpc = "sleep"
  /\ cpc = "open"
  /\ spc = [x \in Setters |-> "idle"]
  /\ sfield = [x \in Setters |-> "none"]
  /\ sval = [x \in Setters |-> 0]
  /\ faults = 0 /\ nsets = 0

LentStep(t) ==
  \/ GetStart(t, "block")
  \/ GetFromFree(t)
  \/ GetGrow(t) /\ UNCHANGED faults
  \/ GetAtMax(t)
  \/ GetWake(t)
  \/ \E h \in Handles : CloseStart(t, h)
  \/ CloseLocked(t)
  \/ \E u \in Callers : CloseLockedTorn(t, u)
  \/ \E u \in Callers : CloseLockedTornTouch(t, u)
  \/ CloseFinish(t)

NextLent == (\E t \in Callers : LentStep(t)) \/ Tick

SpecLent == InitLent /\ [][NextLent]_vars

\* Two callers that get a connection, may use it as the subject of a with
\* block, and close it.
NextScope == (\E t \in Callers : LiveStep(t)) \/ ScopeNext

SpecScope == InitLive /\ [][NextScope]_vars

\* One cycle of _cleanpool alone, from any state the pool can be in when a
\* cycle starts: up to MaxMembers members, some of them held by callers, the
\* others in _free with sessions alive or dead, each free member created and
\* last touched at some time up to now; poolmin and poolmax as the setters
\* left them, in either order, the size of _pool on either side of both.
InitCycle ==
  /\ \E n \in 0..MaxMembers, k \in 0..Cardinality(Callers) :
       /\ k <= n
       /\ pool = 1..n
       /\ use = (n - k + 1)..n
       /\ free = [i \in 1..(n - k) |-> n - k + 1 - i]
  /\ now = MaxStamp
  /\ create_time \in [Members -> 0..MaxStamp]
  /\ touch_time \in [Members -> 0..MaxStamp]
  /\ \A m \in Members :
       IF m \in SeqSet(free)
         THEN create_time[m] <= touch_time[m]
         ELSE create_time[m] = 0 /\ touch_time[m] = 0
  /\ sess \in [Members -> {"none", "open", "dead"}]
  /\ \A m \in Members :
       /\ m \notin pool => sess[m] = "none"
       /\ m \in use => sess[m] = "open"
       /\ m \in SeqSet(free) => sess[m] # "none"
  /\ hmember \in [Handles -> 0..MaxMembers]
  /\ \A h \in Handles : hmember[h] \in use \cup {0}
  /\ hmember[Lent] = 0
  /\ \A m \in use : Cardinality({h \in Handles : hmember[h] = m}) = 1
  /\ hstate = [h \in Handles |-> IF hmember[h] = 0 THEN "none" ELSE "open"]
  /\ poolmin \in 0..MaxMembers
  /\ poolmax \in 1..MaxMembers
  /\ idle_timeout \in {0, 1}
  /\ hc_on_get = FALSE
  /\ healthcheck_callback = "std"
  /\ cleanup_interval = 1
  /\ kpc = "done"
  /\ initial = Unset
  /\ cleaned_dead = 0 /\ cleaned_idle = 0 /\ cleanup_cycles = 0
  /\ exitevent = FALSE
  /\ lockOwner = NoThread
  /\ waiters = <<>>
  /\ pc = [t \in Callers |-> "idle"]
  /\ mode = [t \in Callers |-> "block"]
  /\ hnd = [t \in Callers |-> t]
  /\ ret = "none"
  /\ jpc = "sleep"
  /\ cpc = "open"
  /\ spc = [x \in Setters |-> "idle"]
  /\ sfield = [x \in Setters |-> "none"]
  /\ sval = [x \in Setters |-> 0]
  /\ faults = 0 /\ nsets = 0

NextCycle == JanitorWake \/ cleanpool \/ JanitorCount

SpecCycle == InitCycle /\ [][NextCycle]_vars

\* The same two callers on a pool that probes in getconnection, without the
\* cleanup thread; at some point the probe may start to fail on every
\* session. Every caller that can run does.
InitProbed == Init /\ hc_on_get /\ idle_timeout = 0

NextBadProbe == (\E t \in Callers : LiveStep(t)) \/ ProbeBreaks

SpecBadProbe ==
  /\ InitProbed /\ [][NextBadProbe]_vars
  /\ \A t \in Callers : WF_vars(LiveStep(t))

\* ------------------------------------------------------------- properties
\* No close() of handle h is under way and h is open.
Held(h) == hstate[h] = "open" /\ NotClosing(h)

\* C1: from the return of getconnection until close() of the handle, the
\* handle's member is not in _free and no other unclosed handle has the
\* same member (handles with a close() under way are left out on both
\* sides).
C1_HandleExclusive ==
  \A h \in Handles :
    Held(h) =>
      /\ hmember[h] \notin SeqSet(free)
      /\ \A g \in Handles \ {h} : Held(g) => hmember[g] # hmember[h]

\* C2: whenever no thread holds the lock, _free and _use are disjoint,
\* together they are _pool, no member is twice in _free, and so
\* poolsize = poolused + poolfree.
C2_Partition ==
  lockOwner = NoThread =>
    /\ SeqSet(free) \cap use = {}
    /\ SeqSet(free) \cup use = pool
    /\ \A i, j \in 1..Len(free) : free[i] = free[j] => i = j
    /\ Cardinality(pool) = Cardinality(use) + Len(free)

\* C3: with poolmin and poolmax as given to the constructor, _pool never
\* has more than poolmax members.
C3_InventoryAtMostPoolmax == Cardinality(pool) <= poolmax

\* A caller waits because every one of the poolmax members is in use, after
\* a cleanup cycle has run.
C3_Witness ==
  /\ \E t \in Callers : pc[t] = "g_wait"
  /\ Cardinality(pool) = poolmax /\ use = pool
  /\ cleanup_cycles > 0

C5_CloseToHeadThenReuse ==
  [][\A t \in Callers :
       /\ \A h \in Handles :
            (~exitevent /\ hstate[h] = "open" /\ CloseStart(t, h))
            => /\ pc'[t] = "c_lock" /\ hnd'[t] = h
               /\ UNCHANGED <<pool, free, use>>
       /\ ( /\ pc[t] = "c_lock" /\ pc'[t] # "c_lock"
            /\ hstate[hnd[t]] = "open"
            /\ \A u \in Callers \ {t} :
                 pc[u] \in {"c_lock", "c_fin"} => hnd[u] # hnd[t] )
          => /\ pc'[t] = "c_fin"
             /\ hmember[hnd[t]] \in use
             /\ use' = use \ {hmember[hnd[t]]}
             /\ free' = <<hmember[hnd[t]]>> \o free
             /\ pool' = pool
       /\ (pc[t] = "g_loop" /\ free # <<>> /\ ret' = "handle")
          => /\ hmember'[t] = Head(free)
             /\ free' = Tail(free)
             /\ use' = use \cup {Head(free)}
             /\ pool' = pool]_vars

\* C6: each caller making one blocking getconnection, every handle being
\* closed: every caller gets a handle in the end.
C6_AcquirersServed == <>(\A t \in Callers : hstate[t] # "none")

\* C7: close() of a handle that is closed already changes nothing.
C7_CloseIdempotent ==
  [][\A t \in Callers, h \in Handles :
       (hstate[h] = "closed" /\ CloseStart(t, h))
       => UNCHANGED <<poolVars, hndVars, pc, hnd, lockOwner, waiters,
                      exitevent, statVars>>]_vars

\* close() has just returned at once for the only handle there is, which
\* had been given back to the pool, the pool having been closed since.
C7_Witness ==
  /\ ret = "noop"
  /\ exitevent
  /\ \E h \in Handles :
       /\ hstate[h] = "closed" /\ hmember[h] = 0
       /\ \A g \in Handles \ {h} : hstate[g] = "none"

\* C8: a getconnection that resumes from its wait while _exitevent is set
\* does not go on to take a member.
C8_WaiterRechecksFlag ==
  [][\A t \in Callers :
       (exitevent /\ pc[t] \in {"g_woken", "g_tmo"}) => pc'[t] # "g_loop"]_vars

\* C9: NimueConnectionPool.close has not returned while a handle is open.
C9_CloseWaitsForHandles ==
  cpc = "closed" => \A h \in Handles : hstate[h] # "open"

\* C10: when NimueConnectionPool.close has returned, _free is empty, its
\* members having been closed and taken out of _pool.
C10_FreeEmptiedOnClose ==
  cpc = "closed" => (free = <<>> /\ pool = use)

\* C11: once NimueConnectionPool.close has returned, close() of a handle
\* that is held on a live session closes that raw session and marks the
\* handle closed, and changes neither _pool, _free, _use nor a counter; until
\* then no step of the pool ends the session of a held handle: only that
\* close() or the death of the session does.
C11_CloseAfterPoolClose ==
  [][cpc = "closed" =>
       \A h \in Handles :
         (Held(h) /\ sess[hmember[h]] = "open") =>
           /\ \A t \in Callers :
                CloseStart(t, h) =>
                  /\ sess'[hmember[h]] = "closed"
                  /\ hstate'[h] = "closed"
                  /\ UNCHANGED <<pool, free, use, statVars>>
           /\ sess'[hmember[h]] # "open" =>
                \/ \E t \in Callers : CloseStart(t, h)
                \/ KillSession(hmember[h])]_vars

\* C12: with healthcheck_on_getconnection true and a probe that fails on
\* every session, a getconnection that has entered its loop returns.
C12_BadProbeGetReturns ==
  \A t \in Callers :
    (pc[t] = "g_loop" /\ hc_on_get /\ healthcheck_callback = "false")
      ~> pc[t] = "idle"

\* C13: with healthcheck_on_getconnection true, the member of a handle that
\* getconnection returns passed the probe in that call, and a candidate
\* that failed the probe is closed, is out of _pool and is neither in _free
\* nor in _use when the call goes on or ends.
C13_ProbedOnGet ==
  [][hc_on_get =>
       \A t \in Callers :
         (GetFromFree(t) \/ GetGrow(t)) =>
           LET candidate == IF free # <<>> THEN Head(free) ELSE NewMember
           IN  IF ret' = "handle"
                 THEN hmember'[t] = candidate /\ healthcheck(sess', candidate)
                 ELSE /\ sess'[candidate] = "closed"
                      /\ candidate \notin pool'
                      /\ candidate \notin SeqSet(free')
                      /\ candidate \notin use']_vars

\* C14: when connfunc raises while getconnection of thread t grows the
\* pool, the call ends with that exception after the one attempt, _lock is
\* free, _pool, _free and _use are as before, and in the state reached a
\* getconnection of any thread that is not inside a call can start.
C14_ConnectErrorLeavesPool ==
  /\ [][\A t \in Callers :
         GetGrowFail(t) =>
           /\ ret' = "ConnectError"
           /\ pc'[t] = "idle"
           /\ faults' = faults + 1
           /\ lockOwner' = NoThread
           /\ UNCHANGED <<pool, free, use>>]_vars
  /\ [](ret = "ConnectError" =>
          \A u \in Callers :
            (pc[u] = "idle" /\ hstate[u] # "open" /\ NotClosing(u)) =>
              ENABLED GetStart(u, "block"))

C14_Witness ==
  /\ ret = "ConnectError"
  /\ lockOwner = NoThread
  /\ \E t \in Callers : pc[t] = "idle" /\ hstate[t] # "open" /\ NotClosing(t)

\* C15: the constructor goes on to open sessions only if poolmin >= 0,
\* poolmax >= 1, poolmax >= poolmin, poolinit is unset or poolmin <=
\* poolinit <= poolmax, cleanup_interval > 0, idle_timeout >= 0 and the
\* probe is callable, and it succeeds only after that; otherwise it raises
\* with no session opened.
C15_ConstructorValidates ==
  [][/\ \A a \in CtorArgs :
          CtorValidate(a) =>
            LET valid ==
                  /\ a.poolmin >= 0 /\ a.poolmax >= 1 /\ a.poolmax >= a.poolmin
                  /\ \/ a.poolinit = <<>>
                     \/ a.poolmin <= a.poolinit[1] /\ a.poolinit[1] <= a.poolmax
                  /\ a.cleanup_interval > 0 /\ a.idle_timeout >= 0
                  /\ a.healthcheck_callback \in {"std", "false"}
            IN  IF valid
                  THEN kpc' = "opening"
                  ELSE /\ kpc' = "raised"
                       /\ ret' = "InvalidParameter"
                       /\ \A m \in Members : sess'[m] = "none"
                       /\ pool' = {}
     /\ kpc' = "done" => kpc = "opening"
     /\ kpc' = "opening" /\ kpc # "opening" =>
          \E a \in CtorArgs : CtorValidate(a)]_vars

C15_Witness == kpc = "raised" /\ ret = "InvalidParameter"

\* C16: when __init__ returns, _pool holds exactly poolinit members if
\* poolinit was given and poolmin members otherwise, all of them in _free,
\* _use is empty and the three counters are 0.
C16_InitialPool ==
  [][/\ \A a \in CtorArgs :
          (CtorValidate(a) /\ kpc' = "opening") =>
            /\ initial' = IF a.poolinit = <<>> THEN a.poolmin ELSE a.poolinit[1]
            /\ pool' = {}
     /\ kpc = "opening" /\ kpc' = "opening" => initial' = initial
     /\ kpc' = "done" =>
          /\ Cardinality(pool') = initial
          /\ SeqSet(free') = pool' /\ Len(free') = Cardinality(pool')
          /\ use' = {}
          /\ cleaned_dead' = 0 /\ cleaned_idle' = 0 /\ cleanup_cycles' = 0
          /\ \A m \in pool' : sess'[m] = "open"]_vars

C16_Witness == kpc = "done" /\ Cardinality(pool) = MaxPoolMax /\ poolmin < MaxPoolMax

\* C17: once a connfunc call of the constructor has raised and the object
\* has been disposed of, no session the constructor opened is still open.
C17_FailedInitClosesSessions ==
  kpc = "deleted" => \A m \in Members : sess[m] # "open"

\* C18: a setter given poolmin < 0 or above the current poolmax, poolmax < 1
\* or below the current poolmin, cleanup_interval <= 0 or idle_timeout < 0
\* raises and no configuration value changes; a value it accepts is what
\* the property holds once the setter has written it, the other
\* configuration values being untouched.
C18_SetterValidates ==
  [][/\ \A x \in Setters, f \in {"poolmin", "poolmax", "cleanup_interval",
                                   "idle_timeout"}, v \in -1..MaxPoolMax :
          SetCheck(x, f, v) =>
            LET invalid ==
                  \/ f = "poolmin" /\ (v < 0 \/ v > poolmax)
                  \/ f = "poolmax" /\ (v < 1 \/ v < poolmin)
                  \/ f = "cleanup_interval" /\ v <= 0
                  \/ f = "idle_timeout" /\ v < 0
            IN  /\ UNCHANGED cfgVars
                /\ IF invalid
                     THEN ret' = "InvalidParameter" /\ spc'[x] = "idle"
                     ELSE /\ ret' # "InvalidParameter"
                          /\ spc'[x] = "write"
                          /\ sfield'[x] = f /\ sval'[x] = v
     /\ \A x \in Setters :
          SetWrite(x) =>
            /\ sfield[x] = "poolmin" => poolmin' = sval[x]
            /\ sfield[x] = "poolmax" => poolmax' = sval[x]
            /\ sfield[x] = "cleanup_interval" => cleanup_interval' = sval[x]
            /\ sfield[x] = "idle_timeout" => idle_timeout' = sval[x]
            /\ sfield[x] # "poolmin" => poolmin' = poolmin
            /\ sfield[x] # "poolmax" => poolmax' = poolmax
            /\ sfield[x] # "cleanup_interval" => cleanup_interval' = cleanup_interval
            /\ sfield[x] # "idle_timeout" => idle_timeout' = idle_timeout
            /\ UNCHANGED <<hc_on_get, healthcheck_callback>>]_vars

C18_Witness == ret = "InvalidParameter" /\ nsets = MaxSets /\ poolmin > 0

\* C19: whatever the interleaving of calls of the poolmin and poolmax
\* setters, 0 <= poolmin <= poolmax and poolmax >= 1.
C19_MinAtMostMax == 0 <= poolmin /\ poolmin <= poolmax /\ poolmax >= 1

\* What a cycle of _cleanpool starts from, once the dead sweep is done: the
\* free members that pass the probe, the size of _pool without the others,
\* and k, the number of those free members idle for longer than
\* idle_timeout.
AliveFree == {m \in SeqSet(free) : healthcheck(sess, m)}
SweptSize == Cardinality(pool \ (SeqSet(free) \ AliveFree))
IdleCount == Cardinality({m \in AliveFree : now - touch_time[m] > idle_timeout})
TrimCap == Min2(IdleCount, Min2(SweptSize - poolmin, Cardinality(AliveFree)))

\* The members the idle trim of the cycle ends: the idle trim alone closes
\* the session of a member that passed the probe.
Trimmed == {m \in AliveFree : sess'[m] = "closed"}

\* C20 as stated: a cycle's idle trim removes exactly min(k, |_pool| -
\* poolmin, |_free|) members, the sizes being those after the dead sweep,
\* and adds that number to cleaned_idle.
C20_IdleTrimExactlyMin ==
  [][cleanpool =>
       /\ Cardinality(Trimmed) = TrimCap
       /\ cleaned_idle' = cleaned_idle + TrimCap]_vars

\* C20, amended: a cycle's idle trim removes exactly max(0, min(k, |_pool| -
\* poolmin, |_free|)) members, the sizes being those after the dead sweep,
\* adds that number to cleaned_idle, takes none of them back into _pool or
\* _free, and when it removes a member leaves at least poolmin members.
C20_IdleTrimCount ==
  [][cleanpool =>
       LET n == IF TrimCap > 0 THEN TrimCap ELSE 0
       IN  /\ Cardinality(Trimmed) = n
           /\ cleaned_idle' = cleaned_idle + n
           /\ Trimmed \cap pool' = {}
           /\ Trimmed \cap SeqSet(free') = {}
           /\ n > 0 => SweptSize - n >= poolmin]_vars

\* A cycle has just trimmed a member while another idle member stayed
\* because of poolmin.
C20_Witness ==
  /\ jpc = "count"
  /\ cleaned_idle = 1
  /\ poolmin = 1
  /\ Len(free) = 1
  /\ now - touch_time[free[1]] > idle_timeout

\* What the trim to poolmax of a cycle starts from, once the idle trim is
\* done: the size of _pool and of _free, and the number of free members it
\* is to remove.
IdleTrimmedSize == SweptSize - (cleaned_idle' - cleaned_idle)
IdleTrimmedFree == Cardinality(AliveFree) - (cleaned_idle' - cleaned_idle)
OverCap == Min2(IdleTrimmedSize - poolmax, IdleTrimmedFree)

\* The members the trim to poolmax of the cycle takes out: they leave _pool
\* with their session as it was.
Capped == {m \in AliveFree : m \notin pool' /\ sess'[m] # "closed"}

\* C21: a cycle that finds _pool larger than poolmax after its idle trim
\* removes exactly min(|_pool| - poolmax, |_free|) further free members, and
\* ends with |_pool| <= poolmax or with _free empty.
C21_OverCapTrim ==
  [][cleanpool /\ IdleTrimmedSize > poolmax =>
       /\ Cardinality(Capped) = OverCap
       /\ Capped \cap SeqSet(free') = {}
       /\ Cardinality(pool') <= poolmax \/ free' = <<>>]_vars

\* C22: a cycle of _cleanpool that runs to its end with every connect of its
\* refill succeeding leaves at least poolmin members in _pool.
C22_RefilledToPoolmin ==
  [][cleanpool /\ jpc' = "count" /\ faults' = faults =>
       Cardinality(pool') >= poolmin]_vars

\* A cycle has run to its end after poolmin was set to 2, no caller has
\* asked for a connection, and _pool holds two members.
C22_Witness ==
  /\ jpc = "count" /\ ~exitevent
  /\ nsets > 0 /\ poolmin = 2 /\ faults = 0
  /\ \A t \in Callers : pc[t] = "idle" /\ hstate[t] = "none"
  /\ Cardinality(pool) = 2 /\ Len(free) = 2

\* C23: a cycle of _cleanpool leaves _use and the sessions of the members in
\* _use as they are and keeps those members in _pool; when every member is
\* in use and _pool is larger than poolmax, it leaves _pool, _use and _free
\* as they are.
C23_InUseUntouched ==
  [][cleanpool =>
       /\ use' = use
       /\ \A m \in use : sess'[m] = sess[m] /\ (m \in pool => m \in pool')
       /\ use = pool /\ Cardinality(pool) > poolmax =>
            pool' = pool /\ free' = free]_vars

\* C24: when a caller leaves the with block of its handle on a pool that
\* is not closing, the handle is closed and its member is in _free.
C24_ScopeExitCloses ==
  [][\A t \in Callers :
       ScopeExit(t) /\ ~exitevent =>
         hstate'[t] = "closed" /\ hmember[t] \in SeqSet(free')]_vars

\* C25: close() of an open handle on a pool that is not closing never ends
\* with the error of the session's rollback: it goes on to the part under
\* the lock, which returns the member to _free.
C25_RollbackErrorSwallowed ==
  [][\A t \in Callers, h \in Handles :
       CloseStart(t, h) /\ ~alreadyClosed(h) /\ ~exitevent =>
         ret' # "error" /\ pc'[t] = "c_lock"]_vars

\* C26: no step lowers cleaned_dead, cleaned_idle or cleanup_cycles;
\* cleanup_cycles changes only at the end of a cycle that ran through, and
\* every such cycle adds exactly 1 to it.
C26_CountersMonotonic ==
  [][/\ cleaned_dead' >= cleaned_dead
     /\ cleaned_idle' >= cleaned_idle
     /\ cleanup_cycles' >= cleanup_cycles
     /\ cleanup_cycles' # cleanup_cycles => JanitorCount
     /\ cleanpool => (jpc' = "count" \/ jpc' = "sleep")
     /\ jpc = "count" /\ jpc' # "count" =>
          cleanup_cycles' = cleanup_cycles + 1]_vars

\* A cycle that removed a dead and an idle member has been counted.
C26_Witness ==
  /\ jpc = "sleep"
  /\ cleanup_cycles = 1
  /\ cleaned_dead = 1 /\ cleaned_idle = 1

\* C27: an object returned by poolstats() that shows cleaned_dead +
\* cleaned_idle > 0 shows cleanup_cycles >= 1.
C27_SnapshotWholeCycles ==
  [][PoolStats =>
       (poolstats.cleaned_dead + poolstats.cleaned_idle > 0 =>
          poolstats.cleanup_cycles >= 1)]_vars

\* The free members the idle trim of a cycle chooses from.
IdleCandidates == {m \in AliveFree : now - touch_time[m] > idle_timeout}

\* C28: when the idle trim of a cycle removes member a and leaves candidate
\* b, a has been idle for longer than b, or for as long as b and was not
\* created after b.
C28_IdleTrimOrder ==
  [][cleanpool =>
       \A a \in Trimmed, b \in IdleCandidates \ Trimmed :
         \/ now - touch_time[a] > now - touch_time[b]
         \/ /\ touch_time[a] = touch_time[b]
            /\ create_time[a] <= create_time[b]]_vars

\* The free members that fail the probe of the dead sweep, and the position
\* of a member in a sequence it is in.
DeadFree == SeqSet(free) \ AliveFree
PosIn(f, m) == CHOOSE i \in 1..Len(f) : f[i] = m

C30_RemovedIsClosed ==
  [][/\ \A m \in pool \ pool' : sess[m] # "closed" /\ sess'[m] = "closed"
     /\ \A m \in Members \ pool' : sess'[m] \in {"none", "closed"}]_vars

\* C31: in a cycle of _cleanpool whose refill has a connect fail, the failed
\* call is the only one that fails and the last one the refill makes, and
\* the cycle goes on to be counted.
C31_RefillStopsAtFailure ==
  [][cleanpool /\ faults' > faults =>
       /\ faults' = faults + 1
       /\ ret' = "connect_failed"
       /\ jpc' = "count"]_vars

\* The members of p that are neither in f nor in u.
Orphans(p, f, u) == p \ (SeqSet(f) \cup u)

\* C32: a cycle of _cleanpool, and a step of getconnection that takes a
\* candidate, never ends with the error of a session's close(), and leaves
\* no member in _pool that is in neither _free nor _use and was not so
\* before.
C32_DestroyErrorSwallowed ==
  [][(cleanpool \/ \E t \in Callers : GetFromFree(t) \/ GetGrow(t)) =>
       /\ ret' # "error"
       /\ Orphans(pool', free', use') \subseteq Orphans(pool, free, use)]_vars

\* C33: once _exitevent is set, no step puts a member into _free, and a
\* close() of a handle that gets to its part under the lock does not return
\* the handle's member.
C33_NoReturnAfterShutdown ==
  [][exitevent =>
       /\ SeqSet(free') \subseteq SeqSet(free)
       /\ Len(free') <= Len(free)
       /\ \A t \in Callers : CloseLocked(t) => free' = free]_vars

\* C34: the cleanup thread ends only between two cycles; once _exitevent is
\* set, a cycle that has been started is run and counted; close() has
\* returned only when the cleanup thread has ended, and from then on no
\* cycle starts and cleanup_cycles stays as it is.
C34_JanitorShutdown ==
  /\ [][/\ jpc' = "exited" /\ jpc # "exited" => jpc = "sleep"
        /\ cpc' = "closed" => jpc' = "exited"
        /\ cpc = "closed" =>
             cleanup_cycles' = cleanup_cycles /\ jpc' = "exited"]_vars
  /\ (exitevent /\ jpc = "clean") ~> (jpc = "count")
  /\ (exitevent /\ jpc = "count") ~> (jpc = "exited" /\ cleanup_cycles > 0)
  /\ (cpc = "joining") ~> (cpc = "closed")

\* close() has been called while a cycle was running, and the cycle, which
\* removed a dead member, is about to be counted.
C34_Witness ==
  /\ cpc = "joining"
  /\ jpc = "count"
  /\ cleaned_dead = 1

\* C35: in every reachable state _free is in the order of the members'
\* touch_time, latest first: of two free members the one nearer the head has
\* a touch_time greater than or equal to the other's.  Where no member
\* enters _free but through a handle's close (SpecLent), these are the
\* members that a handle has returned at least once.
C35_FreeByRecency ==
  \A i, j \in 1..Len(free) :
    i < j => touch_time[free[i]] >= touch_time[free[j]]
\* C36: a thread that is waiting in getconnection for a free member while
\* the pool's close() has been called is eventually released: its call
\* returns or raises.
C36_WaitersReleased ==
  \A t \in Callers :
    (pc[t] = "g_wait" /\ exitevent) ~> (pc[t] = "idle")

\* C37: on an open pool no thread stays for ever in the wait of a blocking
\* getconnection without timeout while _free is empty and the pool has
\* fewer than poolmax members: sooner or later it leaves the wait, or the
\* room is gone.
C37_WaiterUsesRoom ==
  \A t \in Callers :
    []<>~(pc[t] = "g_wait" /\ mode[t] = "block" /\ free = <<>> /\ hasRoom)

====
